---- MODULE Spec2Model ----
(***************************************************************************)
(* Model of the airline database CLI (src/main.py): the three sqlite       *)
(* tables, the per-connection transaction, and the insert / update /       *)
(* delete handlers with their validators.                                  *)
(*                                                                         *)
(* Python and SQL values are records [k, n, s]: k is "null", "int" or      *)
(* "text"; a text is a sequence of one-character strings, so that          *)
(* str.isdigit, the date regular expression, str(int) and sqlite's column  *)
(* affinity are computed character by character.  Input strings are taken  *)
(* after the handlers' strip(); they contain no white space.               *)
(***************************************************************************)
EXTENDS Integers, Sequences, FiniteSets, TLC

VARIABLES db, disk, pc, last, prev, nops

vars == <<db, disk, pc, last, prev, nops>>

-----------------------------------------------------------------------------
(* Values *)

Null == [k |-> "null", n |-> 0, s |-> <<>>]
IntV(i) == [k |-> "int", n |-> i, s |-> <<>>]
TextV(str) == [k |-> "text", n |-> 0, s |-> str]

Digits == <<"0", "1", "2", "3", "4", "5", "6", "7", "8", "9">>

IsDigitChar(c) == \E i \in 1..Len(Digits) : Digits[i] = c

DigitVal(c) == (CHOOSE i \in 1..Len(Digits) : Digits[i] = c) - 1

\* str.isdigit(): non-empty and every character a digit
isdigit(str) == Len(str) > 0 /\ \A i \in 1..Len(str) : IsDigitChar(str[i])

RECURSIVE DecimalValue(_)
DecimalValue(str) ==
    IF Len(str) = 0 THEN 0
    ELSE 10 * DecimalValue(SubSeq(str, 1, Len(str) - 1)) + DigitVal(str[Len(str)])

RECURSIVE DecimalText(_)
DecimalText(i) ==
    IF i < 10 THEN <<Digits[i + 1]>>
    ELSE Append(DecimalText(i \div 10), Digits[(i % 10) + 1])

\* Python's str(x) of a value fetched from the store
PyStr(v) ==
    CASE v.k = "null" -> <<"N", "o", "n", "e">>
      [] v.k = "int"  -> DecimalText(v.n)
      [] OTHER        -> v.s

\* re.search("^[0-9]{4}-[0-9]{2}-[0-9]{2}$", data)
DateRegexMatches(str) ==
    /\ Len(str) = 10
    /\ \A i \in {1, 2, 3, 4, 6, 7, 9, 10} : IsDigitChar(str[i])
    /\ str[5] = "-"
    /\ str[8] = "-"

-----------------------------------------------------------------------------
(* Schema: CREATE TABLE statements of initDB, as reported by               *)
(* PRAGMA table_info and PRAGMA foreign_key_list                           *)

table_names == <<"flight", "aircraft", "pilot">>

Tables == {table_names[i] : i \in 1..Len(table_names)}

DateDefault == "'2022-01-01'"

Col(name, datatype, notnull, default, pk) ==
    [name |-> name, datatype |-> datatype, notnull |-> notnull,
     default |-> default, pk |-> pk]

table_info(t) ==
    CASE t = "aircraft" ->
            << Col("aircraft_id", "INTEGER", FALSE, "", TRUE),
               Col("age", "INTEGER", TRUE, "", FALSE),
               Col("capacity", "INTEGER", TRUE, "", FALSE) >>
      [] t = "pilot" ->
            << Col("staff_id", "INTEGER", FALSE, "", TRUE),
               Col("last_name", "TEXT", TRUE, "", FALSE),
               Col("first_name", "TEXT", TRUE, "", FALSE) >>
      [] t = "flight" ->
            << Col("flight_id", "TEXT", FALSE, "", TRUE),
               Col("start_airport", "TEXT", TRUE, "", FALSE),
               Col("destination_airport", "TEXT", TRUE, "", FALSE),
               Col("departure_date", "TEXT", TRUE, DateDefault, FALSE),
               Col("aircraft_id", "INTEGER", TRUE, "", FALSE),
               Col("pilot_1", "INTEGER", TRUE, "", FALSE),
               Col("pilot_2", "INTEGER", FALSE, "", FALSE) >>

Fk(from, to_table, to) == [from |-> from, to_table |-> to_table, to |-> to]

foreign_key_list(t) ==
    IF t = "flight"
    THEN << Fk("pilot_2", "pilot", "staff_id"),
            Fk("pilot_1", "pilot", "staff_id"),
            Fk("aircraft_id", "aircraft", "aircraft_id") >>
    ELSE << >>

\* position of a column name in a table, 0 when it is not a column
ColIndex(t, name) ==
    IF \E i \in 1..Len(table_info(t)) : table_info(t)[i].name = name
    THEN CHOOSE i \in 1..Len(table_info(t)) : table_info(t)[i].name = name
    ELSE 0

getPKName(t) ==
    table_info(t)[CHOOSE i \in 1..Len(table_info(t)) : table_info(t)[i].pk].name

PKIndex(t) == ColIndex(t, getPKName(t))

\* aircraft and pilot declare INTEGER PRIMARY KEY: the key is the rowid
IsRowidTable(t) == table_info(t)[PKIndex(t)].datatype = "INTEGER"

-----------------------------------------------------------------------------
(* The store: a table is a set of rows [rowid, v], v in column order *)

Row(rowid, v) == [rowid |-> rowid, v |-> v]

\* SELECT name FROM t
SelectColumn(d, t, name) == {r.v[ColIndex(t, name)] : r \in d[t]}

MaxRowid(rows) ==
    IF rows = {} THEN 0
    ELSE CHOOSE m \in {r.rowid : r \in rows} : \A r \in rows : r.rowid <= m

\* column affinity applied to a bound parameter
Affinity(datatype, v) ==
    IF datatype = "INTEGER" /\ v.k = "text" /\ isdigit(v.s)
    THEN IntV(DecimalValue(v.s))
    ELSE IF datatype = "TEXT" /\ v.k = "int"
    THEN TextV(DecimalText(v.n))
    ELSE v

ApplyAffinity(t, vals) ==
    [i \in 1..Len(vals) |-> Affinity(table_info(t)[i].datatype, vals[i])]

\* FOREIGN KEY enforcement (PRAGMA foreign_keys = ON) for one child row
FkSatisfied(d, t, v) ==
    \A j \in 1..Len(foreign_key_list(t)) :
        LET fk == foreign_key_list(t)[j]
            x  == v[ColIndex(t, fk.from)]
        IN  x.k = "null" \/ x \in SelectColumn(d, fk.to_table, fk.to)

\* variant: only the first declared foreign key of a table is enforced
IsReferenced_firstFkOnly(d, t, keyval) ==
    \E c \in Tables :
        /\ Len(foreign_key_list(c)) > 0
        /\ foreign_key_list(c)[1].to_table = t
        /\ keyval \in SelectColumn(d, c, foreign_key_list(c)[1].from)

\* some row of some table references the row with key keyval of table t
IsReferenced(d, t, keyval) ==
    \E c \in Tables : \E j \in 1..Len(foreign_key_list(c)) :
        LET fk == foreign_key_list(c)[j]
        IN  /\ fk.to_table = t
            /\ keyval \in SelectColumn(d, c, fk.from)

-----------------------------------------------------------------------------
(* Validators (Main.validateField, validateData, validateUpdateData,       *)
(* validateValueInPK).  A validator yields the kind of the first error it  *)
(* reports, "OK" when it reports none.                                     *)

IsEmpty(data) == data.k = "null" \/ (data.k = "text" /\ data.s = <<>>)

\* list(map(lambda x: str(x[0]), SELECT name FROM t))
ExistingStrings(d, t, name) == {PyStr(x) : x \in SelectColumn(d, t, name)}

\* "validate PK field": the provided id is one of the existing ids
PKRuleFails(d, data, attr, t) ==
    attr.pk /\ data.s \in ExistingStrings(d, t, attr.name)

\* fk_from_names.index(name): the first foreign key declared on the column
FkIndex(t, name) ==
    IF \E j \in 1..Len(foreign_key_list(t)) : foreign_key_list(t)[j].from = name
    THEN CHOOSE j \in 1..Len(foreign_key_list(t)) :
            /\ foreign_key_list(t)[j].from = name
            /\ \A i \in 1..(j - 1) : foreign_key_list(t)[i].from # name
    ELSE 0

\* variant: the foreign key rule is never applied
FKRuleFails_never(d, data, attr, t) == FALSE

\* "validate foreign key fields": the value is not in the linked table
FKRuleFails(d, data, attr, t) ==
    /\ FkIndex(t, attr.name) # 0
    /\ LET fk == foreign_key_list(t)[FkIndex(t, attr.name)]
       IN  data.s \notin ExistingStrings(d, fk.to_table, fk.to)

\* "validate date fields" / "validate integer fields"
FormatError(data, attr) ==
    IF attr.default = DateDefault
    THEN IF DateRegexMatches(data.s) THEN "OK" ELSE "InvalidDateFormat"
    ELSE IF attr.datatype = "INTEGER"
    THEN IF isdigit(data.s) THEN "OK" ELSE "InvalidIntegerFormat"
    ELSE "OK"

\* variant: the format rules are applied before the key and reference rules
validateField_formatFirst(d, data, attr, t) ==
    IF IsEmpty(data)
    THEN IF attr.notnull THEN "MissingRequiredField" ELSE "OK"
    ELSE IF FormatError(data, attr) # "OK" THEN FormatError(data, attr)
    ELSE IF PKRuleFails(d, data, attr, t) THEN "DuplicateKey"
    ELSE IF FKRuleFails(d, data, attr, t) THEN "DanglingForeignKey"
    ELSE "OK"

validateField(d, data, attr, t) ==
    IF IsEmpty(data)
    THEN IF attr.notnull THEN "MissingRequiredField" ELSE "OK"
    ELSE IF PKRuleFails(d, data, attr, t) THEN "DuplicateKey"
    ELSE IF FKRuleFails(d, data, attr, t) THEN "DanglingForeignKey"
    ELSE FormatError(data, attr)

Outcome(err, col) == [err |-> err, col |-> col]

Success == Outcome("OK", "")

\* variant: the loop over the columns starts at the second column
FirstBadField_skipFirst(d, data, t) ==
    LET bad == {i \in 2..Len(table_info(t)) :
                    validateField(d, data[i], table_info(t)[i], t) # "OK"}
    IN  IF bad = {} THEN 0 ELSE CHOOSE i \in bad : \A j \in bad : i <= j

\* index of the first column whose field is rejected, 0 when none is
FirstBadField(d, data, t) ==
    LET bad == {i \in 1..Len(table_info(t)) :
                    validateField(d, data[i], table_info(t)[i], t) # "OK"}
    IN  IF bad = {} THEN 0 ELSE CHOOSE i \in bad : \A j \in bad : i <= j

validateData(d, data, t) ==
    IF Len(data) # Len(table_info(t))
    THEN Outcome("ArityMismatch", "")
    ELSE LET i == FirstBadField(d, data, t)
         IN  IF i = 0 THEN Success
             ELSE Outcome(validateField(d, data[i], table_info(t)[i], t),
                          table_info(t)[i].name)

\* An update argument after arg.split("="): the attribute name and the
\* remaining parts (exactly one part when the argument has a single "=").
Arg(name, vals) == [name |-> name, vals |-> vals]

\* variant: the primary key test of an update argument is left out
validateUpdateArg_noPK(d, arg, t) ==
    IF 1 + Len(arg.vals) # 2
    THEN Outcome("MalformedAssignment", arg.name)
    ELSE IF ColIndex(t, arg.name) = 0
    THEN Outcome("UnknownAttribute", arg.name)
    ELSE LET e == validateField(d, TextV(arg.vals[1]),
                                table_info(t)[ColIndex(t, arg.name)], t)
         IN  IF e = "OK" THEN Success ELSE Outcome(e, arg.name)

\* validation of one "attr=value" argument of an update
validateUpdateArg(d, arg, t) ==
    IF 1 + Len(arg.vals) # 2
    THEN Outcome("MalformedAssignment", arg.name)
    ELSE IF arg.name = getPKName(t)
    THEN Outcome("ImmutableKeyError", arg.name)
    ELSE IF ColIndex(t, arg.name) = 0
    THEN Outcome("UnknownAttribute", arg.name)
    ELSE LET e == validateField(d, TextV(arg.vals[1]),
                                table_info(t)[ColIndex(t, arg.name)], t)
         IN  IF e = "OK" THEN Success ELSE Outcome(e, arg.name)

FirstBadArg(d, args, t) ==
    LET bad == {i \in 1..Len(args) : validateUpdateArg(d, args[i], t) # Success}
    IN  IF bad = {} THEN 0 ELSE CHOOSE i \in bad : \A j \in bad : i <= j

\* data = [pk] + args
validateUpdateData(d, pk, args, t) ==
    IF 1 + Len(args) < 2
    THEN Outcome("ArityMismatch", "")
    ELSE IF pk \notin ExistingStrings(d, t, getPKName(t))
    THEN Outcome("UnknownEntity", "")
    ELSE LET i == FirstBadArg(d, args, t)
         IN  IF i = 0 THEN Success ELSE validateUpdateArg(d, args[i], t)

\* rows selected by WHERE pk = ? with the parameter bound as text
RowsWithKey(d, t, value) ==
    {r \in d[t] :
        r.v[PKIndex(t)] =
            Affinity(table_info(t)[PKIndex(t)].datatype, TextV(value))}

validateValueInPK(d, value, t) ==
    IF RowsWithKey(d, t, value) = {}
    THEN Outcome("UnknownEntity", "")
    ELSE Success

-----------------------------------------------------------------------------
(* Statement execution by the store.  A statement that violates a          *)
(* constraint changes nothing; what earlier statements of the open         *)
(* transaction wrote stays until commit or close.                          *)

Result(ok, d) == [ok |-> ok, d |-> d]

\* INSERT INTO t (all columns) VALUES (params)
InsertRow(d, t, params) ==
    LET v      == ApplyAffinity(t, params)
        key    == v[PKIndex(t)]
        rowid  == IF IsRowidTable(t) /\ key.k = "int"
                  THEN key.n
                  ELSE MaxRowid(d[t]) + 1
        stored == IF IsRowidTable(t)
                  THEN [v EXCEPT ![PKIndex(t)] = IntV(rowid)]
                  ELSE v
        ok     == /\ IsRowidTable(t) => key.k \in {"int", "null"}
                  /\ \A i \in 1..Len(stored) :
                        table_info(t)[i].notnull => stored[i].k # "null"
                  /\ rowid \notin {r.rowid : r \in d[t]}
                  /\ key.k = "null" \/ key \notin SelectColumn(d, t, getPKName(t))
                  /\ FkSatisfied(d, t, stored)
    IN  IF ok
        THEN Result(TRUE, [d EXCEPT ![t] = @ \cup {Row(rowid, stored)}])
        ELSE Result(FALSE, d)

\* cursor.executemany(INSERT ..., data): one statement per row, stopping at
\* the first one that raises
RECURSIVE executemany(_, _, _)
executemany(d, t, data) ==
    IF data = << >>
    THEN Result(TRUE, d)
    ELSE LET r == InsertRow(d, t, Head(data))
         IN  IF r.ok THEN executemany(r.d, t, Tail(data)) ELSE Result(FALSE, d)

\* params.append(_split[1].strip() or None)
UpdateParam(str) == IF str = << >> THEN Null ELSE TextV(str)

\* the SET clause applied to one row, assignments taken left to right
RECURSIVE SetColumns(_, _, _)
SetColumns(v, t, args) ==
    IF args = << >>
    THEN v
    ELSE LET i == ColIndex(t, Head(args).name)
         IN  SetColumns(
                [v EXCEPT ![i] = Affinity(table_info(t)[i].datatype,
                                          UpdateParam(Head(args).vals[1]))],
                t, Tail(args))

\* variant: the UPDATE statement has no WHERE clause
UpdateRows_noWhere(d, t, pk, args) ==
    LET new(r) == Row(r.rowid, SetColumns(r.v, t, args))
        ok     == \A r \in d[t] :
                      /\ \A i \in 1..Len(r.v) :
                            table_info(t)[i].notnull => new(r).v[i].k # "null"
                      /\ FkSatisfied(d, t, new(r).v)
    IN  IF ok
        THEN Result(TRUE, [d EXCEPT ![t] = {new(r) : r \in d[t]}])
        ELSE Result(FALSE, d)

\* UPDATE t SET a=?,b=? WHERE pk=?
UpdateRows(d, t, pk, args) ==
    LET targets == RowsWithKey(d, t, pk)
        new(r)  == Row(r.rowid, SetColumns(r.v, t, args))
        ok      == \A r \in targets :
                      /\ \A i \in 1..Len(r.v) :
                            table_info(t)[i].notnull => new(r).v[i].k # "null"
                      /\ FkSatisfied(d, t, new(r).v)
    IN  IF ok
        THEN Result(TRUE, [d EXCEPT ![t] = (@ \ targets) \cup {new(r) : r \in targets}])
        ELSE Result(FALSE, d)

\* variant: the store does not enforce foreign keys on delete
DeleteRows_noFK(d, t, value) ==
    Result(TRUE, [d EXCEPT ![t] = @ \ RowsWithKey(d, t, value)])

\* DELETE FROM t WHERE pk = ?
DeleteRows(d, t, value) ==
    LET targets == RowsWithKey(d, t, value)
        ok      == \A r \in targets : ~IsReferenced(d, t, r.v[PKIndex(t)])
    IN  IF ok
        THEN Result(TRUE, [d EXCEPT ![t] = @ \ targets])
        ELSE Result(FALSE, d)

-----------------------------------------------------------------------------
(* Queries.  search and view only read the tables of the session.          *)

\* x = y in a WHERE or ON clause: never true of NULL
SqlEq(x, y) == x.k # "null" /\ y.k # "null" /\ x = y

\* SELECT * FROM t WHERE arg = :arg, the parameter bound as the text typed
search(d, t, arg, value) ==
    {r \in d[t] :
        SqlEq(r.v[ColIndex(t, arg)],
              Affinity(table_info(t)[ColIndex(t, arg)].datatype, TextV(value)))}

\* the row a LEFT JOIN supplies when no pilot matches
NoRow == Row(0, << >>)

\* the pilots matching ON flight.pilot_2 = p2.staff_id
SecondPilots(d, f) ==
    {p \in d["pilot"] :
        SqlEq(f.v[ColIndex("flight", "pilot_2")], p.v[ColIndex("pilot", "staff_id")])}

\* variant: the second pilot is joined with INNER JOIN
LeftJoinSecondPilot_inner(d, f) == SecondPilots(d, f)

\* LEFT JOIN pilot AS p2: the matching pilots, or one row of NULLs
LeftJoinSecondPilot(d, f) ==
    IF SecondPilots(d, f) = {} THEN {NoRow} ELSE SecondPilots(d, f)

\* the joined rows of one flight row
JoinedRows(d, f) ==
    {[flight |-> f, a |-> a, p1 |-> p1, p2 |-> p2] :
        a \in {x \in d["aircraft"] :
                SqlEq(f.v[ColIndex("flight", "aircraft_id")],
                      x.v[ColIndex("aircraft", "aircraft_id")])},
        p1 \in {x \in d["pilot"] :
                SqlEq(f.v[ColIndex("flight", "pilot_1")],
                      x.v[ColIndex("pilot", "staff_id")])},
        p2 \in LeftJoinSecondPilot(d, f)}

\* the rows of the 'all' query: flight INNER JOIN aircraft INNER JOIN pilot
\* (first pilot) LEFT JOIN pilot (second pilot)
view_all(d) == UNION {JoinedRows(d, f) : f \in d["flight"]}

-----------------------------------------------------------------------------
(* Initial contents: the rows initDB writes into a new database file *)

EmptyDB == [t \in Tables |-> {}]

pilot_data ==
    << << TextV(<<"1">>), TextV(<<"b", "e", "c", "k", "h", "a", "m">>),
          TextV(<<"d", "a", "v", "i", "d">>) >>,
       << TextV(<<"2">>), TextV(<<"k", "a", "n", "e">>),
          TextV(<<"h", "a", "r", "r", "y">>) >> >>

aircraft_data ==
    << << TextV(<<"1">>), IntV(5), IntV(420) >>,
       << TextV(<<"2">>), IntV(9), IntV(110) >> >>

\* the rows of one seeding executemany: the tables are new and the keys are
\* distinct integers, so every row is stored under its own key
SeedRows(t, data) ==
    {LET v == ApplyAffinity(t, data[i]) IN Row(v[PKIndex(t)].n, v) :
        i \in 1..Len(data)}

initDB ==
    [t \in Tables |->
        CASE t = "pilot" -> SeedRows(t, pilot_data)
          [] t = "aircraft" -> SeedRows(t, aircraft_data)
          [] OTHER -> {}]

-----------------------------------------------------------------------------
(* Inputs typed at the prompts *)

MaxOps == 2
MaxBatch == 2
MaxArgs == 2

SeqsOf(S, lo, hi) == UNION {[1..n -> S] : n \in lo..hi}

GoodDate == <<"2", "0", "2", "2", "-", "0", "5", "-", "0", "1">>
BadDate == <<"2", "0", "2", "2", "-", "5", "-", "1">>

FlightLine(id, dest, dt, ac, p1, p2) == <<id, <<"L">>, dest, dt, ac, p1, p2>>

\* one line of an insert prompt after split(",") and strip()
Lines(t) ==
    CASE t = "aircraft" ->
            { << <<"3">>, <<"5">>, <<"7">> >>,
              << <<"1">>, <<"5">>, <<"7">> >>,
              << <<"0", "1">>, <<"5">>, <<"7">> >>,
              << <<>>, <<"5">>, <<"7">> >>,
              << <<"x">>, <<"5">>, <<"7">> >>,
              << <<"3">>, <<>>, <<"7">> >>,
              << <<"3">>, <<"5">>, <<"x">> >>,
              << <<>> >> }
      [] t = "pilot" ->
            { << <<"3">>, <<"k">>, <<"h">> >>,
              << <<"2">>, <<"k">>, <<"h">> >>,
              << <<"3">>, <<>>, <<"h">> >>,
              << <<"3">>, <<"k">> >> }
      [] t = "flight" ->
            { FlightLine(<<"A">>, <<"J">>, GoodDate, <<"1">>, <<"1">>, <<>>),
              FlightLine(<<"A">>, <<"J">>, GoodDate, <<"1">>, <<"1">>, <<"2">>),
              FlightLine(<<"B">>, <<"J">>, GoodDate, <<"2">>, <<"2">>, <<"1">>),
              FlightLine(<<>>, <<"J">>, GoodDate, <<"1">>, <<"2">>, <<>>),
              FlightLine(<<"A">>, <<"J">>, GoodDate, <<"9">>, <<"1">>, <<>>),
              FlightLine(<<"A">>, <<"J">>, GoodDate, <<"1">>, <<"9">>, <<>>),
              FlightLine(<<"A">>, <<"J">>, GoodDate, <<"1">>, <<"1">>, <<"9">>),
              FlightLine(<<"A">>, <<"J">>, GoodDate, <<"0", "1">>, <<"1">>, <<>>),
              FlightLine(<<"A">>, <<"J">>, GoodDate, <<"x">>, <<"1">>, <<>>),
              FlightLine(<<"A">>, <<"J">>, BadDate, <<"9">>, <<"1">>, <<>>),
              FlightLine(<<"A">>, <<>>, GoodDate, <<"1">>, <<"1">>, <<>>),
              << <<>> >> }

\* lines entered together, separated by ";"
BatchLines(t) ==
    CASE t = "aircraft" ->
            { << <<"3">>, <<"5">>, <<"7">> >>,
              << <<"0", "3">>, <<"5">>, <<"7">> >> }
      [] t = "pilot" ->
            { << <<"3">>, <<"k">>, <<"h">> >>,
              << <<"1">>, <<"k">>, <<"h">> >> }
      [] t = "flight" ->
            { FlightLine(<<>>, <<"J">>, GoodDate, <<"1">>, <<"1">>, <<>>),
              FlightLine(<<"A">>, <<"J">>, GoodDate, <<"1">>, <<"1">>, <<"2">>) }

Batches(t) == SeqsOf(Lines(t), 1, 1) \cup SeqsOf(BatchLines(t), 2, MaxBatch)

\* "attr=value" arguments of an update
Args(t) ==
    CASE t = "aircraft" ->
            { Arg("age", << <<"9">> >>), Arg("age", << <<"x">> >>),
              Arg("age", << <<>> >>), Arg("age", << >>),
              Arg("aircraft_id", << <<"3">> >>), Arg("wings", << <<"2">> >>) }
      [] t = "pilot" ->
            { Arg("last_name", << <<"z">> >>) }
      [] t = "flight" ->
            { Arg("pilot_2", << <<>> >>), Arg("pilot_2", << <<"2">> >>),
              Arg("pilot_2", << <<"9">> >>), Arg("aircraft_id", << <<"2">> >>),
              Arg("departure_date", << BadDate >>),
              Arg("aircraft_id", << <<"x">> >>) }

\* arguments entered together, separated by ","
ArgsTogether(t) ==
    CASE t = "aircraft" ->
            { Arg("age", << <<"9">> >>), Arg("capacity", << <<"0", "8">> >>) }
      [] t = "pilot" ->
            { Arg("staff_id", << <<"3">> >>), Arg("nick", << <<"z">> >>) }
      [] t = "flight" ->
            { Arg("pilot_2", << <<>> >>), Arg("flight_id", << <<"B">> >>) }

ArgLists(t) == SeqsOf(Args(t), 0, 1) \cup SeqsOf(ArgsTogether(t), 2, MaxArgs)

Upd(pk, args) == [pk |-> pk, args |-> args]

\* the answers to an update prompt: identifier, then arguments
UpdateInputs(t) ==
    CASE t = "aircraft" ->
            {Upd(<<"1">>, a) : a \in ArgLists(t)}
            \cup {Upd(<<"3">>, <<Arg("age", << <<"9">> >>)>>),
                  Upd(<<"0", "1">>, <<Arg("age", << <<"9">> >>)>>)}
      [] t = "pilot" ->
            {Upd(<<"2">>, a) : a \in ArgLists(t)}
      [] t = "flight" ->
            {Upd(<<"A">>, a) : a \in ArgLists(t)}
            \cup {Upd(<<"N", "o", "n", "e">>, <<Arg("pilot_2", << <<>> >>)>>)}

\* identifiers typed at the delete prompt
DeleteIds(t) ==
    CASE t = "aircraft" -> {<<"1">>, <<"0", "1">>, <<"3">>}
      [] t = "pilot"    -> {<<"1">>, <<"2">>}
      [] t = "flight"   -> {<<"A">>, <<>>}

BadOptions == {"fleet"}

-----------------------------------------------------------------------------
(* The handlers.  pc is the prompt the program waits at: "execute" is the  *)
(* command loop; a handler that fails calls itself again, so the next      *)
(* input is read by the same handler.  last records the inputs and the     *)
(* reported outcome of the latest handler run, prev the tables before it.  *)

Op(cmd, option, batch, pk, args, out, row) ==
    [cmd |-> cmd, option |-> option, batch |-> batch, pk |-> pk,
     args |-> args, err |-> out.err, col |-> out.col, row |-> row]

Init ==
    /\ db = initDB
    /\ disk = initDB
    /\ pc = "execute"
    /\ last = Op("none", "", << >>, << >>, << >>, Success, 0)
    /\ prev = initDB
    /\ nops = 0

\* a handler may be entered from the command loop or from its own retry
AtPrompt(cmd) == pc \in {"execute", cmd} /\ nops < MaxOps

\* the first prompt is answered with something that is no table
BadOption(cmd, option) ==
    /\ AtPrompt(cmd)
    /\ option \notin Tables
    /\ pc' = cmd
    /\ last' = Op(cmd, option, << >>, << >>, << >>, Outcome("InvalidOption", ""), 0)
    /\ prev' = db
    /\ nops' = nops + 1
    /\ UNCHANGED <<db, disk>>

\* field.strip() / "" becomes None
ParseLine(line) ==
    [i \in 1..Len(line) |-> IF line[i] = << >> THEN Null ELSE TextV(line[i])]

\* variant: only the first line of a batch is validated
FirstBadLine_firstOnly(d, t, batch) ==
    IF validateData(d, ParseLine(batch[1]), t) # Success THEN 1 ELSE 0

\* index of the first line validateData rejects, 0 when it accepts all
FirstBadLine(d, t, batch) ==
    LET bad == {i \in 1..Len(batch) : validateData(d, ParseLine(batch[i]), t) # Success}
    IN  IF bad = {} THEN 0 ELSE CHOOSE i \in bad : \A j \in bad : i <= j

insert(option, batch) ==
    /\ AtPrompt("insert")
    /\ option \in Tables
    /\ prev' = db
    /\ nops' = nops + 1
    /\ LET data == [i \in 1..Len(batch) |-> ParseLine(batch[i])]
           bad  == FirstBadLine(db, option, batch)
           res  == executemany(db, option, data)
       IN  IF bad # 0
           THEN /\ last' = Op("insert", option, batch, << >>, << >>,
                              validateData(db, data[bad], option), bad)
                /\ pc' = "insert"
                /\ UNCHANGED <<db, disk>>
           ELSE IF ~res.ok
           THEN /\ last' = Op("insert", option, batch, << >>, << >>,
                              Outcome("ConstraintViolation", ""), 0)
                /\ pc' = "insert"
                /\ db' = res.d
                /\ UNCHANGED disk
           ELSE /\ last' = Op("insert", option, batch, << >>, << >>, Success, 0)
                /\ pc' = "execute"
                /\ db' = res.d
                /\ disk' = res.d

update(option, pk, args) ==
    /\ AtPrompt("update")
    /\ option \in Tables
    /\ prev' = db
    /\ nops' = nops + 1
    /\ LET error == validateUpdateData(db, pk, args, option)
           res   == UpdateRows(db, option, pk, args)
       IN  IF error # Success
           THEN /\ last' = Op("update", option, << >>, pk, args, error, 0)
                /\ pc' = "update"
                /\ UNCHANGED <<db, disk>>
           ELSE IF ~res.ok
           THEN /\ last' = Op("update", option, << >>, pk, args,
                              Outcome("ConstraintViolation", ""), 0)
                /\ pc' = "update"
                /\ UNCHANGED <<db, disk>>
           ELSE /\ last' = Op("update", option, << >>, pk, args, Success, 0)
                /\ pc' = "execute"
                /\ db' = res.d
                /\ disk' = res.d

delete(option, input_id) ==
    /\ AtPrompt("delete")
    /\ option \in Tables
    /\ prev' = db
    /\ nops' = nops + 1
    /\ LET err == validateValueInPK(db, input_id, option)
           res == DeleteRows(db, option, input_id)
       IN  IF err # Success
           THEN /\ last' = Op("delete", option, << >>, input_id, << >>, err, 0)
                /\ pc' = "delete"
                /\ UNCHANGED <<db, disk>>
           ELSE IF ~res.ok
           THEN /\ last' = Op("delete", option, << >>, input_id, << >>,
                              Outcome("ReferencedByOtherEntity", ""), 0)
                /\ pc' = "execute"
                /\ UNCHANGED <<db, disk>>
           ELSE /\ last' = Op("delete", option, << >>, input_id, << >>, Success, 0)
                /\ pc' = "execute"
                /\ db' = res.d
                /\ disk' = res.d

Next ==
    \/ \E cmd \in {"insert", "update", "delete"}, o \in BadOptions : BadOption(cmd, o)
    \/ \E t \in Tables : \E batch \in Batches(t) : insert(t, batch)
    \/ \E t \in Tables : \E u \in UpdateInputs(t) : update(t, u.pk, u.args)
    \/ \E t \in Tables : \E id \in DeleteIds(t) : delete(t, id)

Spec == Init /\ [][Next]_vars

-----------------------------------------------------------------------------
(* Properties.  They are stated over the inputs and outcome of the latest  *)
(* handler run (last), the tables before it (prev) and after it (db).      *)

Inserted == last.cmd = "insert" /\ last.option \in Tables
Updated == last.cmd = "update" /\ last.option \in Tables
Deleted == last.cmd = "delete" /\ last.option \in Tables

\* the outcomes of an insert or update whose input passed validation
PassedValidation == last.err \in {"OK", "ConstraintViolation"}

LastLine(i) == ParseLine(last.batch[i])

\* the value a column holds after it is given the non-empty text str
ValueOf(t, i, str) ==
    IF table_info(t)[i].datatype = "INTEGER" /\ isdigit(str)
    THEN IntV(DecimalValue(str))
    ELSE TextV(str)

\* the key values of table t, and the rows having a given key value
KeysOf(d, t) == {r.v[PKIndex(t)] : r \in d[t]}

\* C1: when validation rejects some line of an insert batch, no line of the
\* batch is written, not even the lines before it that passed: the tables
\* after the insert are the tables before it.
C1_BatchValidationAtomic ==
    (/\ Inserted
     /\ \E i \in 1..Len(last.batch) :
            validateData(prev, LastLine(i), last.option) # Success)
    => (db = prev /\ ~PassedValidation)

\* a batch whose first line passed and whose second line was rejected
C1_Witness ==
    /\ Inserted
    /\ Len(last.batch) >= 2
    /\ last.row = 2
    /\ validateData(prev, LastLine(1), last.option) = Success
    /\ db = prev

\* C2: an insert batch that passed validation and is then aborted by the
\* store leaves none of its rows behind: the session sees the tables as they
\* were before the batch, and it sees nothing that is not committed.
C2_EngineFailureContained ==
    (Inserted /\ last.err = "ConstraintViolation")
    => (db = prev /\ db = disk)

\* C3: an insert whose first line carries a primary key that an existing
\* row of the table already has (for an integer key: the same number,
\* however it is written) is rejected by the validator as DuplicateKey, and
\* the table is unchanged.
C3_DuplicateKeyRejected ==
    (/\ Inserted
     /\ Len(last.batch[1]) = Len(table_info(last.option))
     /\ last.batch[1][PKIndex(last.option)] # << >>
     /\ ValueOf(last.option, PKIndex(last.option),
                last.batch[1][PKIndex(last.option)]) \in KeysOf(prev, last.option))
    => (last.err = "DuplicateKey" /\ db = prev)

\* the foreign key columns of flight and what they refer to
FlightRefs == {foreign_key_list("flight")[j] : j \in 1..Len(foreign_key_list("flight"))}

\* the text str, given for the referring column of fk, names no existing row
Dangling(d, fk, str) ==
    /\ str # << >>
    /\ ValueOf("flight", ColIndex("flight", fk.from), str) \notin KeysOf(d, fk.to_table)

TargetRows(d, t, str) ==
    {r \in d[t] : str # << >> /\ r.v[PKIndex(t)] = ValueOf(t, PKIndex(t), str)}

\* the identifier is listed, as text, among the keys of the table
ListedKey(d, t, str) == \E r \in d[t] : PyStr(r.v[PKIndex(t)]) = str

NamesKey(arg) == arg.name = getPKName(last.option) /\ Len(arg.vals) = 1

\* C5 (as claimed): an update of an existing row with an assignment to the
\* primary key column fails with ImmutableKeyError wherever that assignment
\* stands, and changes no row.
C5_KeyAssignmentAlwaysImmutableKeyError ==
    (/\ Updated
     /\ ListedKey(prev, last.option, last.pk)
     /\ \E i \in 1..Len(last.args) : NamesKey(last.args[i]))
    => (last.err = "ImmutableKeyError" /\ db = prev)

\* C5 (amended): such an update fails and changes no row; the failure is
\* ImmutableKeyError when every assignment before the first assignment to
\* the key column is accepted, and the error of the first rejected
\* assignment otherwise.
C5_KeyAssignmentRejected ==
    \A i \in 1..Len(last.args) :
        (/\ Updated
         /\ ListedKey(prev, last.option, last.pk)
         /\ NamesKey(last.args[i])
         /\ \A h \in 1..(i - 1) : ~NamesKey(last.args[h]))
        => /\ last.err \notin {"OK", "ConstraintViolation"}
           /\ db = prev
           /\ (last.err = "ImmutableKeyError"
                <=> \A h \in 1..(i - 1) :
                        validateUpdateArg(prev, last.args[h], last.option) = Success)
           /\ \A h \in 1..(i - 1) :
                (/\ validateUpdateArg(prev, last.args[h], last.option) # Success
                 /\ \A g \in 1..(h - 1) :
                        validateUpdateArg(prev, last.args[g], last.option) = Success)
                => (/\ last.err = validateUpdateArg(prev, last.args[h], last.option).err
                    /\ last.col = last.args[h].name)

\* the key assignment came second, after an accepted assignment
C5_Witness ==
    /\ Updated
    /\ Len(last.args) = 2
    /\ NamesKey(last.args[2])
    /\ ~NamesKey(last.args[1])
    /\ last.err = "ImmutableKeyError"
    /\ db = prev

\* the flight rows of d that refer to the key keyval of table t
ReferringFlights(d, t, keyval) ==
    {f \in d["flight"] :
        \E fk \in FlightRefs :
            fk.to_table = t /\ f.v[ColIndex("flight", fk.from)] = keyval}

\* C6: deleting an aircraft or pilot row that a flight row refers to (by
\* aircraft_id, pilot_1 or pilot_2) fails with ReferencedByOtherEntity; the
\* row is still there and all three tables are as before.
C6_ReferencedRowNotDeleted ==
    (Deleted /\ last.option \in {"aircraft", "pilot"})
    => \A r \in TargetRows(prev, last.option, last.pk) :
            ReferringFlights(prev, last.option, r.v[PKIndex(last.option)]) # {}
            => (/\ last.err = "ReferencedByOtherEntity"
                /\ r \in db[last.option]
                /\ db = prev)

\* a pilot who is only the second pilot of a flight was not deleted
C6_Witness ==
    /\ Deleted
    /\ last.option = "pilot"
    /\ last.err = "ReferencedByOtherEntity"
    /\ \E r \in TargetRows(prev, "pilot", last.pk) : \E f \in prev["flight"] :
            /\ f.v[ColIndex("flight", "pilot_2")] = r.v[PKIndex("pilot")]
            /\ f.v[ColIndex("flight", "pilot_1")] # r.v[PKIndex("pilot")]
    /\ db = prev

\* every flight row of d refers to existing rows
RefersToExisting(d) ==
    \A f \in d["flight"] :
        /\ f.v[ColIndex("flight", "aircraft_id")] \in KeysOf(d, "aircraft")
        /\ f.v[ColIndex("flight", "pilot_1")] \in KeysOf(d, "pilot")
        /\ \/ f.v[ColIndex("flight", "pilot_2")] = Null
           \/ f.v[ColIndex("flight", "pilot_2")] \in KeysOf(d, "pilot")

\* C7: in every reachable state every flight row has the aircraft_id of an
\* existing aircraft, the staff_id of an existing pilot as pilot_1, and NULL
\* or the staff_id of an existing pilot as pilot_2; this holds of the tables
\* the session sees and of the committed tables.
C7_ReferentialIntegrity == RefersToExisting(db) /\ RefersToExisting(disk)

\* a row was deleted while flights with both pilot slots filled exist
C7_Witness ==
    /\ Deleted
    /\ last.err = "OK"
    /\ db # prev
    /\ db["flight"] # {}

\* C8: no table holds two rows with the same primary key value, and a
\* successful update leaves every row of its table with the key it had.
C8_KeysUniqueAndImmutable ==
    /\ \A t \in Tables : \A r1, r2 \in db[t] :
            r1.v[PKIndex(t)] = r2.v[PKIndex(t)] => r1 = r2
    /\ (Updated /\ last.err = "OK")
        => \A r \in prev[last.option] : \E q \in db[last.option] :
                /\ q.rowid = r.rowid
                /\ q.v[PKIndex(last.option)] = r.v[PKIndex(last.option)]

\* the rules a field must meet, stated without an order of evaluation
FieldRulesHold(d, data, attr, t) ==
    IF data.k = "null" \/ data.s = << >>
    THEN ~attr.notnull
    ELSE /\ attr.pk => ~ListedKey(d, t, data.s)
         /\ \A fk \in {foreign_key_list(t)[j] : j \in 1..Len(foreign_key_list(t))} :
                fk.from = attr.name
                => \E r \in d[fk.to_table] :
                        PyStr(r.v[ColIndex(fk.to_table, fk.to)]) = data.s
         /\ attr.default = DateDefault => DateRegexMatches(data.s)
         /\ (attr.default # DateDefault /\ attr.datatype = "INTEGER")
                => isdigit(data.s)

LineAcceptable(d, data, t) ==
    /\ Len(data) = Len(table_info(t))
    /\ \A i \in 1..Len(table_info(t)) :
            FieldRulesHold(d, data[i], table_info(t)[i], t)

\* C9: insert validation accepts a line if and only if the line has as many
\* values as the table has columns and every value meets the field rules of
\* its column; the first rejected line is the one reported, and a line with
\* a wrong number of values is reported as ArityMismatch.
C9_ValidateDataIffFieldRules ==
    Inserted =>
        /\ PassedValidation
            <=> \A i \in 1..Len(last.batch) :
                    LineAcceptable(prev, LastLine(i), last.option)
        /\ \A i \in 1..Len(last.batch) :
                (/\ ~LineAcceptable(prev, LastLine(i), last.option)
                 /\ \A h \in 1..(i - 1) :
                        LineAcceptable(prev, LastLine(h), last.option))
                => /\ last.row = i
                   /\ last.err = "ArityMismatch"
                        <=> Len(last.batch[i]) # Len(table_info(last.option))

\* a flight line that meets every rule, pilot_2 included, was accepted
C9_Witness ==
    /\ Inserted
    /\ last.option = "flight"
    /\ last.err = "OK"
    /\ LastLine(1)[ColIndex("flight", "pilot_2")] # Null
    /\ LineAcceptable(prev, LastLine(1), "flight")

\* the value an accepted assignment gives its column
Assigned(t, arg) ==
    IF arg.vals[1] = << >>
    THEN Null
    ELSE ValueOf(t, ColIndex(t, arg.name), arg.vals[1])

\* C10: a successful update changes, in the row whose key was given, the
\* columns named by the assignments to the values supplied (NULL for an
\* empty value) and nothing else: the other columns of the row, the other
\* rows of the table and the other tables are as before.
C10_UpdateFrame ==
    (Updated /\ last.err = "OK")
    => /\ \A t \in Tables \ {last.option} : db[t] = prev[t]
       /\ {r.rowid : r \in db[last.option]} = {r.rowid : r \in prev[last.option]}
       /\ \A r \in prev[last.option] : \A q \in db[last.option] :
            q.rowid = r.rowid
            => IF r \in TargetRows(prev, last.option, last.pk)
               THEN \A i \in 1..Len(r.v) :
                        LET named == {h \in 1..Len(last.args) :
                                        last.args[h].name = table_info(last.option)[i].name}
                        IN  IF named = {}
                            THEN q.v[i] = r.v[i]
                            ELSE \E h \in named :
                                    q.v[i] = Assigned(last.option, last.args[h])
               ELSE q = r
       /\ disk = db

\* "pilot_2=" set the second pilot of a flight that had one to NULL
C10_Witness ==
    /\ Updated
    /\ last.option = "flight"
    /\ last.err = "OK"
    /\ \E h \in 1..Len(last.args) :
            last.args[h].name = "pilot_2" /\ last.args[h].vals = << << >> >>
    /\ \E r \in prev["flight"] : \E q \in db["flight"] :
            /\ q.rowid = r.rowid
            /\ r.v[ColIndex("flight", "pilot_2")] # Null
            /\ q.v[ColIndex("flight", "pilot_2")] = Null

\* the rows found by the search on the key column for the key typed in
\* line i of the latest insert
FoundByKey(i) ==
    search(db, last.option, getPKName(last.option),
           last.batch[i][PKIndex(last.option)])

\* the row holds, column by column, the values of the line: NULL for an
\* empty field, the number for digits given to an INTEGER column, the text
\* otherwise
HoldsLine(r, t, line) ==
    \A c \in 1..Len(line) :
        r.v[c] = IF line[c] = << >> THEN Null ELSE ValueOf(t, c, line[c])

\* C11: after a successful insert, the search by primary key for the key of
\* each inserted line returns exactly one row, and that row holds the values
\* of the line field by field, an empty field being read back as NULL.
C11_RoundTrip ==
    (Inserted /\ last.err = "OK")
    => \A i \in 1..Len(last.batch) :
            /\ Cardinality(FoundByKey(i)) = 1
            /\ \A r \in FoundByKey(i) : HoldsLine(r, last.option, last.batch[i])

\* field c of a line is empty and is not pilot_2 of flight
EmptyRequired(t, line, c) ==
    /\ line[c] = << >>
    /\ ~(t = "flight" /\ c = ColIndex("flight", "pilot_2"))

\* C12: an insert with a line in which a field other than pilot_2 of flight
\* is empty (a key field included) is rejected by validation and writes
\* nothing; a single flight line with pilot_2 empty and every other field
\* given and valid is accepted and stored with pilot_2 NULL.
C12_OnlyPilot2Optional ==
    /\ (/\ Inserted
        /\ \E i \in 1..Len(last.batch) : \E c \in 1..Len(last.batch[i]) :
                EmptyRequired(last.option, last.batch[i], c))
       => (~PassedValidation /\ db = prev)
    /\ (/\ Inserted
        /\ last.option = "flight"
        /\ Len(last.batch) = 1
        /\ LineAcceptable(prev, LastLine(1), "flight")
        /\ \A c \in 1..Len(last.batch[1]) :
                last.batch[1][c] = << >> <=> c = ColIndex("flight", "pilot_2"))
       => /\ last.err = "OK"
          /\ \E r \in db["flight"] \ prev["flight"] :
                /\ HoldsLine(r, "flight", last.batch[1])
                /\ r.v[ColIndex("flight", "pilot_2")] = Null

\* C13: an update with no assignment fails with ArityMismatch; an update
\* with assignments whose identifier is the key of no row of the table fails
\* with UnknownEntity whatever the assignments are; either way the tables are
\* as before.
C13_UnknownEntityOrArity ==
    Updated
    => /\ Len(last.args) = 0
            => (last.err = "ArityMismatch" /\ db = prev)
       /\ (Len(last.args) > 0 /\ TargetRows(prev, last.option, last.pk) = {})
            => (last.err = "UnknownEntity" /\ db = prev)

\* the rows of a query result that show the flight row f
RowsOf(result, f) == {j \in result : j.flight = f}

\* C14: in every reachable state the 'all' query returns exactly one row
\* for each row of the flight table, whether or not the flight has a second
\* pilot, and no other row.
C14_ViewAllOneRowPerFlight ==
    LET result == view_all(db)
    IN  /\ \A f \in db["flight"] : Cardinality(RowsOf(result, f)) = 1
        /\ Cardinality(result) = Cardinality(db["flight"])

\* a flight without a second pilot is shown, next to one that has one
C14_Witness ==
    /\ \E f \in db["flight"] :
            /\ f.v[ColIndex("flight", "pilot_2")] = Null
            /\ \E j \in RowsOf(view_all(db), f) : j.p2 = NoRow
    /\ \E f \in db["flight"] :
            /\ f.v[ColIndex("flight", "pilot_2")] # Null
            /\ \E j \in RowsOf(view_all(db), f) : j.p2 \in db["pilot"]

\* the failure of rule n of the precedence for a non-empty text on a column;
\* a value exists in a column when it is the text of a stored value
RuleFails(n, d, str, attr, t) ==
    CASE n = 3 -> attr.pk /\ ListedKey(d, t, str)
      [] n = 4 -> \E fk \in {foreign_key_list(t)[j] : j \in 1..Len(foreign_key_list(t))} :
                    /\ fk.from = attr.name
                    /\ \A r \in d[fk.to_table] :
                            PyStr(r.v[ColIndex(fk.to_table, fk.to)]) # str
      [] n = 5 -> attr.default = DateDefault /\ ~DateRegexMatches(str)
      [] n = 6 -> /\ attr.default # DateDefault
                  /\ attr.datatype = "INTEGER"
                  /\ \E h \in 1..Len(str) : ~IsDigitChar(str[h])

RuleError(n) ==
    CASE n = 3 -> "DuplicateKey"
      [] n = 4 -> "DanglingForeignKey"
      [] n = 5 -> "InvalidDateFormat"
      [] n = 6 -> "InvalidIntegerFormat"

\* the error of the first failing rule, "OK" when no rule fails
FirstFailingRule(d, data, attr, t) ==
    IF IsEmpty(data)
    THEN IF attr.notnull THEN "MissingRequiredField" ELSE "OK"
    ELSE LET failing == {n \in 3..6 : RuleFails(n, d, data.s, attr, t)}
         IN  IF failing = {} THEN "OK"
             ELSE RuleError(CHOOSE n \in failing : \A m \in failing : n <= m)

\* validateField, applied to a field of column i of table t in the tables
\* before the latest handler run, reports the first failing rule.  Hence a
\* text with a non-digit on an INTEGER reference column is reported as
\* DanglingForeignKey, on an INTEGER key column where it is no existing key
\* as InvalidIntegerFormat, and a date-marked column is never reported as
\* InvalidIntegerFormat.
ReportsFirstFailingRule(data, t, i) ==
    LET attr == table_info(t)[i]
        e    == validateField(prev, data, attr, t)
    IN  /\ e = FirstFailingRule(prev, data, attr, t)
        /\ (~IsEmpty(data) /\ ~isdigit(data.s) /\ attr.datatype = "INTEGER")
            => /\ FkIndex(t, attr.name) # 0 => e = "DanglingForeignKey"
               /\ (attr.pk /\ ~ListedKey(prev, t, data.s))
                    => e = "InvalidIntegerFormat"
        /\ attr.default = DateDefault => e # "InvalidIntegerFormat"

\* C15: field validation reports the first failing rule of the precedence:
\* empty on a NOT NULL column, (empty on a nullable column passes), existing
\* key, dangling reference, date format, integer format.  This holds of
\* every field of every full line of an insert and of the value of every
\* assignment to a column in an update, and the error an insert reports is
\* that of the first field of the rejected line for which a rule fails.
C15_FirstFailingRuleReported ==
    /\ Inserted
        => \A i \in 1..Len(last.batch) :
                Len(last.batch[i]) = Len(table_info(last.option))
                => /\ \A c \in 1..Len(last.batch[i]) :
                        ReportsFirstFailingRule(LastLine(i)[c], last.option, c)
                   /\ i = last.row
                        => \E c \in 1..Len(last.batch[i]) :
                            /\ last.col = table_info(last.option)[c].name
                            /\ last.err = FirstFailingRule(prev, LastLine(i)[c],
                                            table_info(last.option)[c], last.option)
                            /\ last.err # "OK"
                            /\ \A b \in 1..(c - 1) :
                                    FirstFailingRule(prev, LastLine(i)[b],
                                        table_info(last.option)[b], last.option) = "OK"
    /\ Updated
        => \A h \in 1..Len(last.args) :
                (Len(last.args[h].vals) = 1 /\ ColIndex(last.option, last.args[h].name) # 0)
                => ReportsFirstFailingRule(TextV(last.args[h].vals[1]), last.option,
                                           ColIndex(last.option, last.args[h].name))

\* an insert reported a non-numeric aircraft_id of a flight line as a
\* dangling reference
C15_Witness ==
    /\ Inserted
    /\ last.option = "flight"
    /\ last.err = "DanglingForeignKey"
    /\ last.col = "aircraft_id"
    /\ ~isdigit(last.batch[last.row][ColIndex("flight", "aircraft_id")])
    /\ validateField(prev, LastLine(last.row)[ColIndex("flight", "aircraft_id")],
                     table_info("flight")[ColIndex("flight", "aircraft_id")],
                     "flight") = "DanglingForeignKey"

====
